---- MODULE Spec2Model ----
(***************************************************************************)
(* Resilience and streaming layer of the todo agent orchestrator.          *)
(*                                                                         *)
(*   SpecCB      CircuitBreaker (src/resilience/circuit_breaker.py) with   *)
(*               the tenacity retry policy (src/resilience/retry.py)       *)
(*               wrapped inside CircuitBreaker.call, driven by concurrent  *)
(*               asyncio callers and a discrete clock.                     *)
(*   SpecStream  chat_stream_generator (src/api/routes.py) pulling the     *)
(*               Agent Runner's events through map_agent_event_to_chatkit  *)
(*               and StreamBuilder (src/streaming/chatkit.py).             *)
(***************************************************************************)
EXTENDS Integers, Sequences, FiniteSets, TLC

(***************************************************************************)
(* Bounds of the model                                                     *)
(***************************************************************************)
MaxTime == 2
MaxThreshold == 2
MaxRecovery == 2
MaxHalfOpen == 2
MaxAttempts == 2

\* two concurrent requests share the process-wide breaker
Callers == {"c1", "c2"}

Min(a, b) == IF a < b THEN a ELSE b

(***************************************************************************)
(* CircuitState, CircuitBreakerState, CircuitBreakerConfig                 *)
(***************************************************************************)
CLOSED == "closed"
OPEN == "open"
HALF_OPEN == "half_open"
CircuitState == {CLOSED, OPEN, HALF_OPEN}

\* last_failure_time: datetime | None = None
None == -1

\* CircuitBreakerState(): the dataclass defaults; last_state_change is the
\* construction time.
CircuitBreakerState(t) ==
    [state |-> CLOSED,
     failure_count |-> 0,
     last_failure_time |-> None,
     last_state_change |-> t,
     consecutive_successes |-> 0]

\* CircuitBreakerConfig.__post_init__ accepts exactly these configurations
\* (recovery_timeout.total_seconds() < 0 is rejected, 0 is accepted).
\* max_attempts is the stop_after_attempt(n) of the retry decorator that the
\* protected function carries.
CircuitBreakerConfig ==
    [failure_threshold : 1..MaxThreshold,
     recovery_timeout : 0..MaxRecovery,
     half_open_max_calls : 1..MaxHalfOpen,
     max_attempts : 1..MaxAttempts]

(***************************************************************************)
(* Errors an attempt of the protected operation can raise                  *)
(***************************************************************************)
ErrKinds == {"ConnectionError", "TimeoutError", "ValueError"}

RETRIABLE_EXCEPTIONS == {"ConnectionError", "TimeoutError", "OSError"}

VARIABLES
    breaker,      \* CircuitBreaker.state (a CircuitBreakerState)
    config,       \* CircuitBreaker.config plus the retry policy's max_attempts
    now,          \* datetime.utcnow(), in whole time units
    pc,           \* per caller: "idle", "running" (attempt awaited), "sleeping" (backoff)
    plan,         \* per caller: how many leading attempts of the operation raise
    attempt,      \* per caller: tenacity's attempt_number = invocations of the operation in this call
    streak,       \* history: consecutive failed calls since the last success or reset
    trial,        \* history: successful calls recorded since the breaker last became HALF_OPEN
    ev,           \* history: the step just taken and what it returned or raised
    probes,       \* history: calls admitted since the breaker last became HALF_OPEN
    mcp_server,      \* app.state.mcp_server handed to chat_stream_generator
    message,         \* the sanitized user message, lower-cased and tokenised
    spc,             \* position of chat_stream_generator: "start", "streaming", "closed"
    stream_builder,  \* StreamBuilder: accumulated_text, tools_called, _tool_calls_by_id
    detected_intent, \* local detected_intent
    context_state,   \* local context_state (the entries the generator reads back)
    out,             \* the SSE events yielded so far, in order
    pulled,          \* events taken from result.stream_events() so far
    runner,          \* history: "not_started", "running", "exhausted", "raised"
    inbound,         \* history: the events result.stream_events() has yielded
    caught,          \* history: the exception the generator caught, if any
    gemini_breaker,  \* _gemini_circuit_breaker.state, as the health check reads it
    health           \* the body of the last response of GET /health

cbvars == <<breaker, config, now, pc, plan, attempt, streak, trial, ev, probes>>

hvars == <<gemini_breaker, health>>

stvars == <<mcp_server, message, spc, stream_builder, detected_intent,
            context_state, out, pulled, runner, inbound, caught, hvars>>

vars == <<cbvars, stvars>>

(***************************************************************************)
(* CircuitBreaker private methods, as functions of the state record s, the *)
(* configuration c and the current time t                                  *)
(***************************************************************************)
\* variant: an OPEN breaker is never due for a recovery attempt
should_attempt_reset_never(s, c, t) == FALSE

\* variant: the timeout must be strictly exceeded
should_attempt_reset_strict(s, c, t) ==
    IF s.state # OPEN THEN FALSE
    ELSE IF s.last_failure_time = None THEN FALSE
    ELSE (t - s.last_failure_time) > c.recovery_timeout

should_attempt_reset(s, c, t) ==
    IF s.state # OPEN THEN FALSE
    ELSE IF s.last_failure_time = None THEN FALSE
    ELSE (t - s.last_failure_time) >= c.recovery_timeout

transition_to_half_open(s, t) ==
    [s EXCEPT !.state = HALF_OPEN,
              !.consecutive_successes = 0,
              !.last_state_change = t]

\* variant: consecutive_successes survives the reopening
transition_to_open_keep(s, t) ==
    [s EXCEPT !.state = OPEN,
              !.last_failure_time = t,
              !.last_state_change = t]

transition_to_open(s, t) ==
    [s EXCEPT !.state = OPEN,
              !.last_failure_time = t,
              !.last_state_change = t,
              !.consecutive_successes = 0]

\* variant: the success counter survives the closing
transition_to_closed_keep(s, t) ==
    [s EXCEPT !.state = CLOSED,
              !.failure_count = 0,
              !.last_state_change = t]

transition_to_closed(s, t) ==
    [s EXCEPT !.state = CLOSED,
              !.failure_count = 0,
              !.consecutive_successes = 0,
              !.last_state_change = t]

\* variant: a success in CLOSED leaves failure_count as it is
record_success_keep(s, c, t) ==
    IF s.state = HALF_OPEN THEN
        LET s1 == [s EXCEPT !.consecutive_successes = @ + 1]
        IN IF s1.consecutive_successes >= c.half_open_max_calls
           THEN transition_to_closed(s1, t)
           ELSE s1
    ELSE s

\* variant: one success more than half_open_max_calls is needed
record_success_late(s, c, t) ==
    IF s.state = HALF_OPEN THEN
        LET s1 == [s EXCEPT !.consecutive_successes = @ + 1]
        IN IF s1.consecutive_successes > c.half_open_max_calls
           THEN transition_to_closed(s1, t)
           ELSE s1
    ELSE IF s.state = CLOSED THEN [s EXCEPT !.failure_count = 0]
    ELSE s

\* variant: a success recorded while OPEN closes the breaker
record_success_any(s, c, t) ==
    IF s.state = HALF_OPEN THEN
        LET s1 == [s EXCEPT !.consecutive_successes = @ + 1]
        IN IF s1.consecutive_successes >= c.half_open_max_calls
           THEN transition_to_closed(s1, t)
           ELSE s1
    ELSE IF s.state = CLOSED THEN [s EXCEPT !.failure_count = 0]
    ELSE transition_to_closed(s, t)

record_success(s, c, t) ==
    IF s.state = HALF_OPEN THEN
        LET s1 == [s EXCEPT !.consecutive_successes = @ + 1]
        IN IF s1.consecutive_successes >= c.half_open_max_calls
           THEN transition_to_closed(s1, t)
           ELSE s1
    ELSE IF s.state = CLOSED THEN [s EXCEPT !.failure_count = 0]
    ELSE s

\* variant: the first failure in CLOSED opens the breaker
record_failure_eager(s, c, t) ==
    LET s1 == [s EXCEPT !.last_failure_time = t]
    IN IF s1.state = HALF_OPEN THEN transition_to_open(s1, t)
       ELSE IF s1.state = CLOSED
       THEN transition_to_open([s1 EXCEPT !.failure_count = @ + 1], t)
       ELSE s1

\* variant: the breaker opens one failure late
record_failure_late(s, c, t) ==
    LET s1 == [s EXCEPT !.last_failure_time = t]
    IN IF s1.state = HALF_OPEN THEN transition_to_open(s1, t)
       ELSE IF s1.state = CLOSED THEN
           LET s2 == [s1 EXCEPT !.failure_count = @ + 1]
           IN IF s2.failure_count > c.failure_threshold
              THEN transition_to_open(s2, t)
              ELSE s2
       ELSE s1

\* variant: a failure recorded while OPEN is counted too
record_failure_counting(s, c, t) ==
    LET s1 == [s EXCEPT !.last_failure_time = t]
    IN IF s1.state = HALF_OPEN THEN transition_to_open(s1, t)
       ELSE LET s2 == [s1 EXCEPT !.failure_count = @ + 1]
            IN IF s1.state = CLOSED /\ s2.failure_count >= c.failure_threshold
               THEN transition_to_open(s2, t)
               ELSE s2

\* variant: a failed trial reopens the breaker without restarting the window
record_failure_stale(s, c, t) ==
    IF s.state = HALF_OPEN
    THEN [transition_to_open(s, t) EXCEPT !.last_failure_time = s.last_failure_time]
    ELSE IF s.state = CLOSED THEN
        LET s2 == [s EXCEPT !.last_failure_time = t, !.failure_count = @ + 1]
        IN IF s2.failure_count >= c.failure_threshold
           THEN transition_to_open(s2, t)
           ELSE s2
    ELSE [s EXCEPT !.last_failure_time = t]

record_failure(s, c, t) ==
    LET s1 == [s EXCEPT !.last_failure_time = t]
    IN IF s1.state = HALF_OPEN THEN transition_to_open(s1, t)
       ELSE IF s1.state = CLOSED THEN
           LET s2 == [s1 EXCEPT !.failure_count = @ + 1]
           IN IF s2.failure_count >= c.failure_threshold
              THEN transition_to_open(s2, t)
              ELSE s2
       ELSE s1

\* variant: a rejected call is recorded like a failed one
fail_fast_recorded(s, c, t) == record_failure(s, c, t)

\* call, lines 304-306: the breaker after raising CircuitBreakerError
fail_fast(s, c, t) == s

(***************************************************************************)
(* tenacity: retry(stop=stop_after_attempt(n),                             *)
(*                 retry=retry_if_exception_type(RETRIABLE_EXCEPTIONS),    *)
(*                 reraise=True)                                           *)
(***************************************************************************)
\* variant: gives up one attempt early
stop_after_attempt_early(n, attempt_number) == attempt_number >= n - 1

stop_after_attempt(n, attempt_number) == attempt_number >= n

\* variant: every exception is retried
retry_if_exception_any(e) == TRUE

retry_if_exception_type(e) == e \in RETRIABLE_EXCEPTIONS

\* variant: reraise=False, tenacity wraps the last error
reraise_wrapped(e) == IF e \in RETRIABLE_EXCEPTIONS THEN "RetryError" ELSE e

\* what the retry wrapper raises once it gives up on an attempt that raised e
reraise(e) == e

\* GET /health has not been requested yet
NoResponse == [status |-> "None"]

(***************************************************************************)
(* Initial state: a freshly constructed breaker, all callers idle          *)
(***************************************************************************)
\* ev.op    the step: admitted, rejected, success, failure, backoff, retry,
\*          reset, tick
\* ev.from  breaker state before the step
\* ev.n     consecutive_successes before the step
\* ev.res   what CircuitBreaker.call returned ("ok") or raised, "none" if
\*          the step did not end a call
\* ev.err   what the attempt of the operation raised in the step
\* ev.inv   invocations of the operation made by the call that ended
Ev(op, res, err, inv) ==
    [op |-> op, from |-> breaker.state, n |-> breaker.consecutive_successes,
     res |-> res, err |-> err, inv |-> inv]

InitCB ==
    /\ config \in CircuitBreakerConfig
    /\ now = 0
    /\ breaker = CircuitBreakerState(0)
    /\ pc = [p \in Callers |-> "idle"]
    /\ plan = [p \in Callers |-> 0]
    /\ attempt = [p \in Callers |-> 0]
    /\ streak = 0
    /\ trial = 0
    /\ probes = 0
    /\ ev = [op |-> "init", from |-> CLOSED, n |-> 0,
             res |-> "none", err |-> "none", inv |-> 0]
    \* no request is being streamed
    /\ mcp_server = "None"
    /\ message = <<>>
    /\ spc = "idle"
    /\ stream_builder = <<>>
    /\ detected_intent = "None"
    /\ context_state = <<>>
    /\ out = <<>>
    /\ pulled = 0
    /\ runner = "not_started"
    /\ inbound = <<>>
    /\ caught = [class |-> "None", str |-> <<>>]
    /\ gemini_breaker = CircuitBreakerState(0)
    /\ health = NoResponse

StreakCap == MaxThreshold + 1

\* a failed call (the operation raised, or the breaker rejected the call)
FailedCall == streak' = Min(streak + 1, StreakCap)

\* successes of the current HALF_OPEN period
Trial(n) == trial' = IF breaker'.state = HALF_OPEN THEN n ELSE 0

ProbeCap == MaxHalfOpen + 1

\* calls admitted in the current HALF_OPEN period
Probes(n) == probes' = IF breaker'.state = HALF_OPEN THEN Min(n, ProbeCap) ELSE 0

\* variant: calls are serialized behind a caller that sleeps in backoff
call_ready_serial(p) == pc[p] = "idle" /\ \A q \in Callers : pc[q] # "sleeping"

\* CircuitBreaker.call takes no lock and the backoff is an awaited sleep:
\* a caller enters as soon as it makes the call, whatever the others do
call_ready(p) == pc[p] = "idle"

(***************************************************************************)
(* CircuitBreaker.call, lines 300-310: the reset check, the fail-fast test *)
(* and the start of the first attempt of the protected function.  The      *)
(* operation raises on its first k attempts and returns afterwards.        *)
(***************************************************************************)
call_enter(p) ==
    /\ call_ready(p)
    /\ LET due == should_attempt_reset(breaker, config, now)
           s1 == IF due THEN transition_to_half_open(breaker, now) ELSE breaker
       IN /\ IF s1.state = OPEN
             THEN \* raise CircuitBreakerError(self.name, self.state)
                  /\ breaker' = fail_fast(s1, config, now)
                  /\ ev' = Ev("rejected", "CircuitBreakerError", "none", 0)
                  /\ FailedCall
                  /\ Trial(trial)
                  /\ Probes(probes)
                  /\ UNCHANGED <<pc, plan, attempt>>
             ELSE \* result = await func(*args, **kwargs)
                  /\ breaker' = s1
                  /\ Probes(IF due THEN 1 ELSE probes + 1)
                  /\ \E k \in 0..config.max_attempts :
                         plan' = [plan EXCEPT ![p] = k]
                  /\ pc' = [pc EXCEPT ![p] = "running"]
                  /\ attempt' = [attempt EXCEPT ![p] = 1]
                  /\ ev' = Ev("admitted", "none", "none", 0)
                  /\ Trial(IF due THEN 0 ELSE trial)
                  /\ UNCHANGED streak
    /\ UNCHANGED <<config, now>>
    /\ UNCHANGED stvars

\* the call p was making is over
Finished(p) ==
    /\ pc' = [pc EXCEPT ![p] = "idle"]
    /\ plan' = [plan EXCEPT ![p] = 0]
    /\ attempt' = [attempt EXCEPT ![p] = 0]

(***************************************************************************)
(* The awaited attempt completes (call, lines 310-316, around the retry    *)
(* wrapper).  Everything after the await runs without suspension: the      *)
(* retry decision and, when the wrapper returns or raises, the breaker's   *)
(* bookkeeping.                                                            *)
(***************************************************************************)
attempt_returns(p) ==
    /\ pc[p] = "running"
    /\ IF attempt[p] > plan[p]
       THEN \* the operation returned: _record_success(); return result
            /\ breaker' = record_success(breaker, config, now)
            /\ ev' = Ev("success", "ok", "none", attempt[p])
            /\ Finished(p)
            /\ streak' = 0
            /\ Trial(trial + 1)
            /\ Probes(probes)
       ELSE \E e \in ErrKinds :
            IF retry_if_exception_type(e)
               /\ ~stop_after_attempt(config.max_attempts, attempt[p])
            THEN \* tenacity sleeps before the next attempt
                 /\ pc' = [pc EXCEPT ![p] = "sleeping"]
                 /\ ev' = Ev("backoff", "none", e, 0)
                 /\ UNCHANGED <<breaker, plan, attempt, streak, trial, probes>>
            ELSE \* except Exception as e: _record_failure(e); raise
                 /\ breaker' = record_failure(breaker, config, now)
                 /\ ev' = Ev("failure", reraise(e), e, attempt[p])
                 /\ Finished(p)
                 /\ FailedCall
                 /\ Trial(trial)
                 /\ Probes(probes)
    /\ UNCHANGED <<config, now>>
    /\ UNCHANGED stvars

\* the backoff sleep is over: tenacity invokes the operation again
retry_wake(p) ==
    /\ pc[p] = "sleeping"
    /\ pc' = [pc EXCEPT ![p] = "running"]
    /\ attempt' = [attempt EXCEPT ![p] = @ + 1]
    /\ ev' = Ev("retry", "none", "none", 0)
    /\ UNCHANGED <<breaker, config, now, plan, streak, trial, probes>>
    /\ UNCHANGED stvars

\* CircuitBreaker.reset()
reset ==
    /\ breaker' = transition_to_closed(breaker, now)
    /\ streak' = 0
    /\ trial' = 0
    /\ probes' = 0
    /\ ev' = Ev("reset", "none", "none", 0)
    /\ UNCHANGED <<config, now, pc, plan, attempt>>
    /\ UNCHANGED stvars

\* time passes
Tick ==
    /\ now < MaxTime
    /\ now' = now + 1
    /\ ev' = Ev("tick", "none", "none", 0)
    /\ UNCHANGED <<breaker, config, pc, plan, attempt, streak, trial, probes>>
    /\ UNCHANGED stvars

NextCB ==
    \/ \E p \in Callers : call_enter(p)
    \/ \E p \in Callers : attempt_returns(p)
    \/ \E p \in Callers : retry_wake(p)
    \/ reset
    \/ Tick

SpecCB == InitCB /\ [][NextCB]_vars

TypeOKCB ==
    /\ breaker.state \in CircuitState
    /\ breaker.failure_count \in 0..MaxThreshold
    /\ now \in 0..MaxTime
    /\ \A p \in Callers : pc[p] \in {"idle", "running", "sleeping"}

(***************************************************************************)
(* Properties of the circuit breaker and the retry policy                  *)
(***************************************************************************)
EnterStep == ev'.op \in {"admitted", "rejected"}

FailedStep == ev'.op \in {"failure", "rejected"}

Elapsed == now - breaker.last_failure_time

C3_RecoveryCallIsAttempted ==
    [][(EnterStep /\ breaker.state = OPEN /\ breaker.last_failure_time # None
        /\ Elapsed >= config.recovery_timeout)
       => /\ ev'.op = "admitted"
          /\ breaker'.state = HALF_OPEN
          /\ breaker'.consecutive_successes = 0
          /\ \E p \in Callers : /\ pc[p] = "idle"
                                 /\ pc'[p] = "running"
                                 /\ attempt'[p] = 1]_vars

\* a call has just been admitted from OPEN exactly when the timeout elapsed
C3_Witness ==
    /\ ev.op = "admitted"
    /\ ev.from = OPEN
    /\ breaker.state = HALF_OPEN
    /\ config.recovery_timeout > 0
    /\ now - breaker.last_failure_time = config.recovery_timeout

\* C4: a single failed call while HALF_OPEN moves the breaker to OPEN with
\* consecutive_successes = 0, whatever number of successes was counted.
C4_HalfOpenFailureReopens ==
    [][(ev'.op = "failure" /\ breaker.state = HALF_OPEN)
       => /\ breaker'.state = OPEN
          /\ breaker'.consecutive_successes = 0
          /\ breaker'.last_failure_time = now]_vars

\* a trial period with one success counted has just been ended by a failure
C4_Witness ==
    /\ ev.op = "failure"
    /\ ev.from = HALF_OPEN
    /\ ev.n >= 1
    /\ breaker.state = OPEN

C9_ExhaustedRetriesOneFailure ==
    [][/\ (ev'.op = "failure" /\ ev'.err \in RETRIABLE_EXCEPTIONS)
           => /\ ev'.inv = config.max_attempts
              /\ ev'.res = ev'.err
              /\ breaker.state = CLOSED
                 => breaker'.failure_count = breaker.failure_count + 1
       /\ (ev'.op \in {"backoff", "retry"}) => breaker' = breaker]_vars

\* a call of several attempts has just failed on a CLOSED breaker
C9_Witness ==
    /\ ev.op = "failure"
    /\ ev.err \in RETRIABLE_EXCEPTIONS
    /\ ev.inv = config.max_attempts
    /\ config.max_attempts >= 2
    /\ ev.from = CLOSED
    /\ breaker.failure_count >= 1

\* C10: an operation that raises a retryable error on its first k attempts,
\* k < max_attempts, and then returns makes the retry-wrapped call return
\* that success after exactly k+1 invocations.
C10_RetryUntilSuccess ==
    [][\A p \in Callers :
        (/\ pc[p] = "running"
         /\ pc'[p] = "idle"
         /\ plan[p] < config.max_attempts
         /\ ev'.err \notin (ErrKinds \ RETRIABLE_EXCEPTIONS))
        => (ev'.res = "ok" /\ ev'.inv = plan[p] + 1)]_vars

\* a call has just returned after at least one retry
C10_Witness ==
    /\ ev.op = "success"
    /\ ev.res = "ok"
    /\ ev.inv >= 2

\* the caller p whose awaited attempt ended in this step
AttemptEnds(p) == pc[p] = "running" /\ pc'[p] # "running"

\* C11 (as stated): when an attempt raises an error that is not a connection,
\* timeout or OS-level error, no further attempt is made, the error
\* propagates unchanged, and the operation has been invoked exactly once for
\* that call, whatever attempt number the error occurs on.
C11_AsStated ==
    [][\A p \in Callers :
        (AttemptEnds(p) /\ ev'.err \in ErrKinds \ RETRIABLE_EXCEPTIONS)
        => /\ pc'[p] = "idle"
           /\ ev'.op = "failure"
           /\ ev'.res = ev'.err
           /\ ev'.inv = 1]_vars

\* C11 (amended): when an attempt raises an error that is not a connection,
\* timeout or OS-level error, the retry-wrapped call makes no further
\* attempt and the error propagates unchanged: the operation has been
\* invoked exactly as many times as the number of the attempt that raised
\* it (once when it is the first).
C11_NonRetryablePropagates ==
    [][\A p \in Callers :
        (AttemptEnds(p) /\ ev'.err \in ErrKinds \ RETRIABLE_EXCEPTIONS)
        => /\ pc'[p] = "idle"
           /\ ev'.op = "failure"
           /\ ev'.res = ev'.err
           /\ ev'.inv = attempt[p]]_vars

\* a retried call has just been ended by an error that is not retryable
C11_Witness ==
    /\ ev.op = "failure"
    /\ ev.err = "ValueError"
    /\ ev.res = "ValueError"
    /\ ev.inv >= 2

\* C14: in every state reachable through call and reset,
\* consecutive_successes is 0 whenever the state is not HALF_OPEN, and right
\* after every transition into CLOSED (from HALF_OPEN, or by reset() from any
\* state) failure_count and consecutive_successes are both 0.
C14_CountersZeroOutsideTheirState ==
    /\ [](breaker.state # HALF_OPEN => breaker.consecutive_successes = 0)
    /\ [][(breaker'.state = CLOSED /\ (breaker.state # CLOSED \/ ev'.op = "reset"))
          => /\ breaker'.failure_count = 0
             /\ breaker'.consecutive_successes = 0]_vars

\* reset() has just closed a HALF_OPEN breaker that had counted a success
C14_Witness ==
    /\ ev.op = "reset"
    /\ ev.from = HALF_OPEN
    /\ ev.n >= 1
    /\ breaker.state = CLOSED

\* C15: a call rejected because the breaker is OPEN and not yet eligible for
\* recovery leaves the breaker as it was: state, failure_count,
\* consecutive_successes and last_failure_time are unchanged.
C15_RejectionLeavesBreakerUnchanged ==
    [][ev'.op = "rejected"
       => /\ breaker.state = OPEN
          /\ Elapsed < config.recovery_timeout
          /\ breaker' = breaker]_vars

\* a call has just been rejected some time after the failure that opened
\* the breaker
C15_Witness ==
    /\ ev.op = "rejected"
    /\ breaker.state = OPEN
    /\ now > breaker.last_failure_time
    /\ breaker.failure_count >= 1

\* C16: while the breaker is OPEN and recovery_timeout has not elapsed no
\* attempt of the operation is started, retry attempts of a call admitted
\* before the breaker opened included.
C16_NoAttemptWhileOpen ==
    [][(\E p \in Callers : attempt'[p] > attempt[p])
       => ~(breaker.state = OPEN /\ Elapsed < config.recovery_timeout)]_vars

\* C17: during one HALF_OPEN period at most half_open_max_calls calls are
\* admitted to the operation, for every interleaving of concurrent callers.
C17_HalfOpenAdmissionsBounded ==
    breaker.state = HALF_OPEN => probes <= config.half_open_max_calls

\* C18: with concurrent calls on the shared breaker every completed call's
\* outcome is applied exactly once: while the breaker is CLOSED,
\* failure_count is the number of failed calls since the most recent
\* successful call or transition into CLOSED.
C18_FailureCountIsExact ==
    breaker.state = CLOSED => breaker.failure_count = streak

\* a failure has just been counted on a CLOSED breaker while another call
\* is still in flight
C18_Witness ==
    /\ ev.op = "failure"
    /\ breaker.state = CLOSED
    /\ breaker.failure_count >= 1
    /\ \E p \in Callers : pc[p] # "idle"

Earlier(t) == IF t = None THEN None ELSE IF t > 0 THEN t - 1 ELSE 0

TickOn ==
    /\ IF now < MaxTime
       THEN now' = now + 1 /\ UNCHANGED breaker
       ELSE /\ now' = now
            /\ breaker' = [breaker EXCEPT !.last_failure_time = Earlier(@),
                                          !.last_state_change = Earlier(@)]
    /\ ev' = Ev("tick", "none", "none", 0)
    /\ UNCHANGED <<config, pc, plan, attempt, streak, trial, probes>>
    /\ UNCHANGED stvars

\* the configurations with the most failures, trial calls and attempts
InitLive ==
    /\ InitCB
    /\ config.failure_threshold = MaxThreshold
    /\ config.half_open_max_calls = MaxHalfOpen
    /\ config.max_attempts = MaxAttempts
    /\ config.recovery_timeout >= 1

NextLive ==
    \/ \E p \in Callers : call_enter(p)
    \/ \E p \in Callers : attempt_returns(p)
    \/ \E p \in Callers : retry_wake(p)
    \/ reset
    \/ TickOn

\* time keeps advancing, calls keep arriving, and every awaited attempt and
\* every backoff sleep ends
SpecLive ==
    /\ InitLive /\ [][NextLive]_vars
    /\ WF_vars(TickOn)
    /\ \A p \in Callers : /\ WF_vars(call_enter(p))
                          /\ WF_vars(attempt_returns(p))
                          /\ WF_vars(retry_wake(p))

\* C27: if from some point on no call fails, the breaker eventually is
\* CLOSED with failure_count = 0 and stays so, from every reachable state;
\* and whenever it is CLOSED, the failure that completes a run of
\* failure_threshold consecutive failed calls opens it again.
C27_RecoversAndReopens ==
    /\ (<>[](ev.op # "failure"))
          => <>[](breaker.state = CLOSED /\ breaker.failure_count = 0)
    /\ [][(ev'.op = "failure" /\ breaker.state = CLOSED
             /\ streak' >= config.failure_threshold)
          => breaker'.state = OPEN]_vars

\* the breaker has recovered from a failure that was recorded after the
\* clock had advanced, and all calls are over
C27_Witness ==
    /\ ev.op = "success" /\ ev.from = HALF_OPEN
    /\ breaker.state = CLOSED /\ breaker.failure_count = 0
    /\ now = MaxTime
    /\ breaker.last_failure_time >= 1
    /\ breaker.last_state_change = now
    /\ config.half_open_max_calls >= 2
    /\ \A p \in Callers : pc[p] = "idle"

\* C32: a failure in HALF_OPEN reopens the breaker with last_failure_time
\* set to the time of that failure; while the breaker stays OPEN that time
\* never moves back; and a call that enters an OPEN breaker less than
\* recovery_timeout after it is rejected without invoking the operation and
\* leaves the breaker OPEN.
C32_ReopenRestartsWindow ==
    [][/\ (ev'.op = "failure" /\ breaker.state = HALF_OPEN) =>
             /\ breaker'.state = OPEN
             /\ breaker'.last_failure_time = now
             /\ breaker'.last_state_change = now
       /\ (breaker.state = OPEN /\ breaker'.state = OPEN /\ now' = now) =>
             breaker'.last_failure_time >= breaker.last_failure_time
       /\ (/\ ev'.op \in {"admitted", "rejected"}
           /\ breaker.state = OPEN
           /\ now - breaker.last_failure_time < config.recovery_timeout) =>
             /\ ev'.op = "rejected" /\ ev'.res = "CircuitBreakerError"
             /\ ev'.inv = 0
             /\ breaker' = breaker
             /\ UNCHANGED <<pc, plan, attempt>>]_vars

\* a trial call has just failed at the last instant of the clock, at least
\* recovery_timeout after the breaker had opened, and the next call is
\* rejected
C32_Witness ==
    /\ ev.op = "failure" /\ ev.from = HALF_OPEN
    /\ breaker.state = OPEN
    /\ breaker.last_failure_time = now /\ now = MaxTime
    /\ config.recovery_timeout >= 1
    /\ \E p \in Callers : ENABLED (call_enter(p) /\ ev'.op = "rejected")
    /\ \A p \in Callers : ~ENABLED (call_enter(p) /\ ev'.op = "admitted")

\* C34: in every state reachable through call and reset() with concurrent
\* callers, 0 <= failure_count <= failure_threshold, 0 <=
\* consecutive_successes < half_open_max_calls, a CLOSED breaker has
\* failure_count < failure_threshold, and an OPEN breaker has
\* last_failure_time set.
C34_CountersWithinBounds ==
    /\ 0 <= breaker.failure_count
    /\ breaker.failure_count <= config.failure_threshold
    /\ 0 <= breaker.consecutive_successes
    /\ breaker.consecutive_successes < config.half_open_max_calls
    /\ breaker.state = CLOSED => breaker.failure_count < config.failure_threshold
    /\ breaker.state = OPEN => breaker.last_failure_time # None

\* a call admitted before the breaker opened has just failed while the
\* breaker was OPEN with failure_count at the threshold
C34_Witness ==
    /\ ev.op = "failure" /\ ev.from = OPEN
    /\ breaker.state = OPEN
    /\ breaker.failure_count = config.failure_threshold
    /\ config.failure_threshold >= 2
    /\ breaker.last_failure_time = now /\ breaker.last_state_change < now

\* C36: when a call admitted earlier completes while the breaker is OPEN,
\* a success leaves the breaker's record unchanged and a failure changes
\* last_failure_time to now and nothing else.
C36_CompletionWhileOpen ==
    [][/\ (ev'.op = "success" /\ breaker.state = OPEN) => breaker' = breaker
       /\ (ev'.op = "failure" /\ breaker.state = OPEN) =>
             breaker' = [breaker EXCEPT !.last_failure_time = now]]_vars

\* a straggler has just failed while the breaker was OPEN and due for a
\* trial: the recovery window has restarted
C36_Witness ==
    /\ ev.op = "failure" /\ ev.from = OPEN
    /\ breaker.state = OPEN
    /\ breaker.last_failure_time = now
    /\ config.recovery_timeout >= 1
    /\ now - breaker.last_state_change >= config.recovery_timeout
    /\ ~should_attempt_reset(breaker, config, now)
    /\ breaker.failure_count = config.failure_threshold

\* C37: every success counted toward half_open_max_calls comes from a call
\* admitted during the current HALF_OPEN period, so the successes counted,
\* the one being recorded included, never outnumber the calls admitted in
\* the period.
C37_OnlyTrialCallsCount ==
    [][(ev'.op = "success" /\ breaker.state = HALF_OPEN) =>
          breaker.consecutive_successes + 1 <= probes]_vars

(***************************************************************************)
(* Streaming: strings, dicts and the events of the Agent Runner            *)
(*                                                                         *)
(* A str is the sequence of its tokens (words and punctuation): "" is      *)
(* <<>>, + is \o.  A dict is the set of its <<key, value>> items.  An      *)
(* object is a record of the attributes it has, so hasattr is membership   *)
(* in DOMAIN.                                                              *)
(***************************************************************************)
MaxEvents == 3

hasattr(o, a) == a \in DOMAIN o

\* str.startswith
StartsWith(s, k) == Len(s) >= Len(k) /\ SubSeq(s, 1, Len(k)) = k

\* keyword in s, for a keyword of whole words
Contains(s, k) ==
    \E i \in 1..Len(s) :
        i + Len(k) - 1 <= Len(s) /\ SubSeq(s, i, i + Len(k) - 1) = k

\* key in d
HasKey(d, k) == \E kv \in d : kv[1] = k

confirmation_keywords ==
    {<<"yes">>, <<"confirm">>, <<"delete">>, <<"proceed">>,
     <<"yes", "delete", "all">>, <<"do", "it">>, <<"go", "ahead">>,
     <<"yes", ",", "delete">>, <<"confirm", "delete">>}

cancellation_keywords ==
    {<<"no">>, <<"cancel">>, <<"wait">>, <<"stop">>, <<"don't">>, <<"abort">>,
     <<"never", "mind">>, <<"no", "don't">>, <<"do", "not">>}

deletion_keywords ==
    {<<"delete", "all">>, <<"clear", "all">>, <<"remove", "all">>,
     <<"delete", "everything">>, <<"clear", "everything">>,
     <<"remove", "everything">>, <<"delete", "completed">>,
     <<"clear", "completed">>, <<"delete", "pending">>, <<"clear", "overdue">>}

\* message_lower == keyword, or starts with keyword + " " or keyword + ","
is_confirmation_response(m) == \E k \in confirmation_keywords : StartsWith(m, k)

is_cancellation_response(m) == \E k \in cancellation_keywords : StartsWith(m, k)

has_deletion_intent(m) == \E k \in deletion_keywords : Contains(m, k)

\* the user messages of the model
Messages ==
    {<<"add", "milk">>, <<"yes">>, <<"no">>, <<"delete", "all">>,
     <<"please", "clear", "all">>}

(***************************************************************************)
(* ChatKit SSE formatters (src/streaming/chatkit.py)                       *)
(***************************************************************************)
THINKING == "thinking"
TOOL_CALL == "tool_call"
RESPONSE_DELTA == "response_delta"
ERROR == "error"
DONE == "done"

IN_PROGRESS == "in_progress"
COMPLETED == "completed"

TOOL_EXECUTION_FAILED == "tool_execution_failed"
MCP_CONNECTION_ERROR == "mcp_connection_error"
GEMINI_API_ERROR == "gemini_api_error"
TIMEOUT == "timeout"
INVALID_TOOL_ARGUMENTS == "invalid_tool_arguments"

\* "event: <event_type>\ndata: <json>\n\n"
format_sse_event(event_type, data) == [event |-> event_type, data |-> data]

thinking_event(content) == format_sse_event(THINKING, [content |-> content])

tool_call_event(tool_name, arguments, status) ==
    format_sse_event(TOOL_CALL,
        [tool_name |-> tool_name, arguments |-> arguments, status |-> status])

response_delta_event(delta, accumulated) ==
    format_sse_event(RESPONSE_DELTA, [delta |-> delta, accumulated |-> accumulated])

error_event(error_type, msg, recoverable) ==
    format_sse_event(ERROR,
        [error_type |-> error_type, message |-> msg, recoverable |-> recoverable])

done_event(final_output, tools_called, success) ==
    format_sse_event(DONE,
        [final_output |-> final_output, tools_called |-> tools_called,
         success |-> success])

(***************************************************************************)
(* StreamBuilder.  Each method takes the builder sb and gives the builder  *)
(* after the call and the SSE event returned.                              *)
(***************************************************************************)
StreamBuilder ==
    [accumulated_text |-> <<>>, tools_called |-> <<>>, tool_calls_by_id |-> <<>>]

Range(s) == {s[i] : i \in DOMAIN s}

track_tool_call(sb, call_id, tool_name, arguments) ==
    [sb EXCEPT !.tool_calls_by_id =
        [c \in (DOMAIN @) \cup {call_id} |->
            IF c = call_id THEN <<tool_name, arguments>> ELSE @[c]]]

add_thinking(sb, content) == [sb |-> sb, sse |-> thinking_event(content)]

\* variant: the tool name is not recorded
add_tool_call_unrecorded(sb, tool_name, arguments, status) ==
    [sb |-> sb, sse |-> tool_call_event(tool_name, arguments, status)]

\* variant: the tool name is appended on every call
add_tool_call_repeat(sb, tool_name, arguments, status) ==
    [sb |-> [sb EXCEPT !.tools_called = Append(@, tool_name)],
     sse |-> tool_call_event(tool_name, arguments, status)]

add_tool_call(sb, tool_name, arguments, status) ==
    [sb |-> IF tool_name \in Range(sb.tools_called) THEN sb
            ELSE [sb EXCEPT !.tools_called = Append(@, tool_name)],
     sse |-> tool_call_event(tool_name, arguments, status)]

\* variant: the delta replaces the accumulated text
add_response_delta_replace(sb, delta) ==
    [sb |-> [sb EXCEPT !.accumulated_text = delta],
     sse |-> response_delta_event(delta, delta)]

add_response_delta(sb, delta) ==
    LET acc == sb.accumulated_text \o delta
    IN [sb |-> [sb EXCEPT !.accumulated_text = acc],
        sse |-> response_delta_event(delta, acc)]

add_error(sb, error_type, msg, recoverable) ==
    [sb |-> sb, sse |-> error_event(error_type, msg, recoverable)]

\* final_output is always passed by chat_stream_generator
add_done(sb, final_output, success) ==
    [sb |-> sb, sse |-> done_event(final_output, sb.tools_called, success)]

\* the mapper returned None
NoSSE == [event |-> "None"]

\* variant: an event that maps to nothing is reported as a thought
Skip_reported(sb) == add_thinking(sb, <<"unknown", "event">>)

Skip(sb) == [sb |-> sb, sse |-> NoSSE]

(***************************************************************************)
(* Values carried by Agent Runner events                                   *)
(***************************************************************************)
\* a value together with what isinstance says of it
Str(v) == [isa |-> "str", v |-> v]
Dict(d) == [isa |-> "dict", v |-> d]
List(n) == [isa |-> "list", len |-> n]

\* str.strip() of an encoded argument string
strip(s) == IF s = " " THEN "" ELSE s

\* json.loads: the decoded value, or JSONDecodeError.  A decoded object is
\* the set of its <<key, value>> pairs; a decoded array is the set of its
\* <<position, element>> pairs, the positions being ListIndexes.
JSONDecodeError == {<<"JSONDecodeError", "raised">>}
ListIndexes == {"[0]", "[1]"}
json_loads(s) ==
    CASE s = "{\"title\": \"milk\"}" -> {<<"title", "milk">>}
      [] s = "{}" -> {}
      [] s = "[1, 2]" -> {<<"[0]", "1">>, <<"[1]", "2">>}
      [] OTHER -> JSONDecodeError

\* isinstance(v, dict) of a decoded value
isinstance_dict(v) == \A kv \in v : kv[1] \notin ListIndexes

\* the stream events Runner.run_streamed() can yield, by shape
RawResponseEvent(data) == [type |-> "raw_response_event", data |-> data]
RunItemStreamEvent(name, raw_item) ==
    [type |-> "run_item_stream_event", name |-> name,
     item |-> [raw_item |-> raw_item]]

RunnerEvents ==
    { \* raw model events: text delta, full text, error, lifecycle
      RawResponseEvent([delta |-> <<"hi">>]),
      RawResponseEvent([text |-> <<"all", "done">>]),
      RawResponseEvent([type |-> <<"error">>, message |-> <<"quota", "exceeded">>]),
      RawResponseEvent([type |-> <<"response", "created">>]),
      \* tool calls: encoded arguments that parse, that do not, blank, that
      \* parse to an array
      RunItemStreamEvent("tool_called",
          [name |-> "update_todo", call_id |-> "b", arguments |-> Str("[1, 2]")]),
      RunItemStreamEvent("tool_called",
          [name |-> "create_todo", call_id |-> "a",
           arguments |-> Str("{\"title\": \"milk\"}")]),
      RunItemStreamEvent("tool_called",
          [name |-> "list_todos", call_id |-> "b", arguments |-> Str("{oops")]),
      RunItemStreamEvent("tool_called",
          [name |-> "list_todos", call_id |-> "a", arguments |-> Str(" ")]),
      RunItemStreamEvent("tool_called",
          [name |-> "delete_todo", arguments |-> Dict({<<"todo_id", "5">>})]),
      RunItemStreamEvent("tool_output", [call_id |-> "a"]),
      RunItemStreamEvent("tool_output", [call_id |-> "b"]),
      RunItemStreamEvent("message_output_created", [content |-> <<"final", "answer">>]),
      RunItemStreamEvent("reasoning_item_created", [summary |-> <<"thinking", "aloud">>]),
      \* older / custom shapes
      [tool_name |-> "create_todo", arguments |-> {<<"title", "milk">>}],
      [tool_name |-> "list_todos"],
      [tool_name |-> "list_todos", arguments |-> {<<"status", "completed">>},
       result |-> List(3)],
      [tool_name |-> "delete_todo", arguments |-> {<<"todo_id", "5">>},
       result |-> Dict({<<"success", "true">>})],
      [tool_name |-> "update_todo", arguments |-> {<<"todo_id", "5">>}],
      [error |-> <<"model", "overloaded">>, recoverable |-> FALSE],
      [type |-> "agent_updated_stream_event"] }

(***************************************************************************)
(* map_agent_event_to_chatkit(event, stream_builder)                       *)
(***************************************************************************)
map_raw_response_event(event, sb) ==
    IF ~hasattr(event, "data") THEN Skip(sb)
    ELSE LET raw == event.data
         IN IF hasattr(raw, "delta") /\ raw.delta # <<>>
            THEN add_response_delta(sb, raw.delta)
            ELSE IF hasattr(raw, "text") /\ raw.text # <<>>
                    /\ sb.accumulated_text = <<>>
            THEN add_response_delta(sb, raw.text)
            ELSE IF hasattr(raw, "type") /\ Contains(raw.type, <<"error">>)
            THEN LET msg == IF hasattr(raw, "message") /\ raw.message # <<>>
                            THEN raw.message
                            ELSE IF hasattr(raw, "error") /\ raw.error # <<>>
                            THEN raw.error
                            ELSE <<"<raw event>">>
                 IN add_error(sb, GEMINI_API_ERROR, msg, TRUE)
            ELSE Skip(sb)

map_tool_called(raw_item, sb) ==
    LET tool_name == IF hasattr(raw_item, "name") THEN raw_item.name ELSE "None"
        call_id == IF hasattr(raw_item, "call_id") THEN raw_item.call_id ELSE ""
        tool_args ==
            IF ~hasattr(raw_item, "arguments") THEN {}
            ELSE LET raw_args == raw_item.arguments
                 IN IF raw_args.isa = "str"
                    THEN IF strip(raw_args.v) = "" THEN {}
                         ELSE IF json_loads(raw_args.v) = JSONDecodeError
                         THEN {<<"raw", raw_args.v>>}
                         ELSE json_loads(raw_args.v)
                    ELSE IF raw_args.isa = "dict" THEN raw_args.v
                    ELSE {}
        tracked == IF call_id # "" /\ tool_name # "None"
                   THEN track_tool_call(sb, call_id, tool_name, tool_args)
                   ELSE sb
    IN IF tool_name # "None"
       THEN add_tool_call(tracked, tool_name, tool_args, IN_PROGRESS)
       ELSE Skip(tracked)

\* variant: an output without a tracked call is reported as completed
map_tool_output_untracked(raw_item, sb) ==
    LET call_id == IF hasattr(raw_item, "call_id") THEN raw_item.call_id ELSE ""
    IN IF call_id # "" /\ call_id \in DOMAIN sb.tool_calls_by_id
       THEN LET tracked == sb.tool_calls_by_id[call_id]
            IN add_tool_call(sb, tracked[1], tracked[2], COMPLETED)
       ELSE add_tool_call(sb, "unknown", {}, COMPLETED)

map_tool_output(raw_item, sb) ==
    LET call_id == IF hasattr(raw_item, "call_id") THEN raw_item.call_id ELSE ""
    IN IF call_id # "" /\ call_id \in DOMAIN sb.tool_calls_by_id
       THEN LET tracked == sb.tool_calls_by_id[call_id]
            IN add_tool_call(sb, tracked[1], tracked[2], COMPLETED)
       ELSE Skip(sb)

map_run_item_stream_event(event, sb) ==
    LET name == event.name
        raw_item == event.item.raw_item
    IN IF name = "tool_called" THEN map_tool_called(raw_item, sb)
       ELSE IF name = "tool_output" THEN map_tool_output(raw_item, sb)
       ELSE IF name = "message_output_created"
       THEN IF sb.accumulated_text # <<>> THEN Skip(sb)
            ELSE IF hasattr(raw_item, "content") /\ raw_item.content # <<>>
            THEN add_response_delta(sb, raw_item.content)
            ELSE Skip(sb)
       ELSE IF name = "reasoning_item_created"
       THEN IF hasattr(raw_item, "summary") /\ raw_item.summary # <<>>
            THEN add_thinking(sb, raw_item.summary)
            ELSE Skip(sb)
       ELSE Skip(sb)

map_agent_event_to_chatkit(event, sb) ==
    LET event_kind == IF hasattr(event, "type") THEN event.type ELSE "None"
    IN IF event_kind = "raw_response_event" THEN map_raw_response_event(event, sb)
       ELSE IF event_kind = "run_item_stream_event"
       THEN map_run_item_stream_event(event, sb)
       ELSE IF hasattr(event, "delta") /\ event.delta # <<>>
       THEN add_response_delta(sb, event.delta)
       ELSE IF hasattr(event, "tool_name")
       THEN add_tool_call(sb, event.tool_name,
                IF hasattr(event, "arguments") THEN event.arguments ELSE {},
                IF hasattr(event, "result") THEN COMPLETED ELSE IN_PROGRESS)
       ELSE IF hasattr(event, "error")
       THEN add_error(sb, GEMINI_API_ERROR, event.error,
                IF hasattr(event, "recoverable") THEN event.recoverable ELSE TRUE)
       ELSE Skip(sb)

(***************************************************************************)
(* chat_stream_generator: the body of `async for event in                  *)
(* result.stream_events()`.  st holds the locals the body updates: the     *)
(* builder sb, detected_intent, context_state and the events yielded, out. *)
(***************************************************************************)
Yield(st, r) == [st EXCEPT !.sb = r.sb, !.out = Append(@, r.sse)]

Value(d, k) == (CHOOSE kv \in d : kv[1] = k)[2]

getattr_arguments(event) == IF hasattr(event, "arguments") THEN event.arguments ELSE {}

\* the keys among `keys` that tool_args mentions ('tags' only when non-empty)
extracted(tool_args, keys) ==
    LET has(k) == HasKey(tool_args, k) /\ (k = "tags" => Value(tool_args, k) # "")
    IN SelectSeq(keys, has)

\* the keys among `keys` that tool_args mentions
mentioned(tool_args, keys) ==
    LET has(k) == HasKey(tool_args, k)
    IN SelectSeq(keys, has)

\* lines 418-606: the first tool event of a request sets detected_intent
detect_intent(event, st) ==
    LET tool_name == event.tool_name
        tool_args == getattr_arguments(event)
    IN IF st.detected_intent # "None" THEN st
       ELSE IF tool_name = "create_todo" THEN
           LET s1 == [st EXCEPT !.detected_intent = "CREATE"]
               extracted_params ==
                   extracted(tool_args, <<"title", "due_date", "priority", "tags">>)
           IN IF extracted_params # <<>>
              THEN Yield(s1, add_thinking(s1.sb, <<"extracted">> \o extracted_params))
              ELSE s1
       ELSE IF tool_name = "list_todos" THEN
           LET s1 == [st EXCEPT !.detected_intent = "LIST"]
               filter_params ==
                   extracted(tool_args, <<"status", "priority", "due_date_filter", "tags">>)
               s2 == Yield(s1, add_thinking(s1.sb,
                        IF filter_params # <<>> THEN <<"filters">> \o filter_params
                        ELSE <<"fetching">>))
           IN Yield(s2, add_tool_call(s2.sb, "list_todos", tool_args, IN_PROGRESS))
       ELSE IF tool_name = "update_todo" THEN
           LET s1 == [st EXCEPT !.detected_intent = "UPDATE"]
               update_params ==
                   extracted(tool_args,
                       <<"todo_id", "status", "priority", "title", "due_date", "tags">>)
               s2 == Yield(s1, add_thinking(s1.sb,
                        IF update_params # <<>> THEN <<"changes">> \o update_params
                        ELSE <<"updating">>))
           IN Yield(s2, add_tool_call(s2.sb, "update_todo", tool_args, IN_PROGRESS))
       ELSE IF tool_name = "delete_todo" THEN
           LET s1 == [st EXCEPT !.detected_intent = "DELETE"]
               deletion_after_confirmation == st.context_state.is_confirmation_response
               confirmed ==
                   IF HasKey(tool_args, "confirmed") \/ HasKey(tool_args, "confirmation")
                   THEN IF \E kv \in tool_args :
                               kv[1] \in {"confirmed", "confirmation"} /\ kv[2] # ""
                        THEN <<"confirmed", "by", "user">> ELSE <<>>
                   ELSE IF deletion_after_confirmation
                   THEN <<"user", "confirmed", "deletion">> ELSE <<>>
               delete_params == mentioned(tool_args, <<"todo_id">>) \o confirmed
               s2 == Yield(s1, add_thinking(s1.sb,
                        IF delete_params # <<>> THEN <<"deleting">> \o delete_params
                        ELSE <<"processing", "deletion">>))
           IN Yield(s2, add_tool_call(s2.sb, "delete_todo", tool_args, IN_PROGRESS))
       ELSE st

format_todo_list(todos) ==
    IF todos.isa = "list"
    THEN IF todos.len = 0 THEN <<"no", "todos">>
         ELSE <<"found">> \o [i \in 1..todos.len |-> "todo"]
    ELSE <<"found", "todo">>

\* lines 610-854: an event that carries a tool result
tool_completed(event, st, m) ==
    LET tool_name == event.tool_name
        tool_args == getattr_arguments(event)
        tool_result == event.result
        s1 == IF tool_name = "delete_todo" /\ st.detected_intent = "DELETE"
              THEN LET was_mass_deletion == st.context_state.potential_mass_deletion
                       deletion_count == st.context_state.deletion_candidate_count
                       was_confirmed == st.context_state.is_confirmation_response
                       success ==
                           IF tool_result.isa = "dict" /\ HasKey(tool_result.v, "success")
                           THEN Value(tool_result.v, "success") = "true"
                           ELSE TRUE
                       deletion_message ==
                           IF success
                           THEN IF was_mass_deletion /\ deletion_count > 1
                                THEN <<"deleted", "progress">>
                                ELSE IF was_confirmed THEN <<"deletion", "confirmed">>
                                ELSE <<"deleted">>
                           ELSE <<"failed", "to", "delete">>
                   IN Yield(st, add_response_delta(st.sb, deletion_message))
              ELSE st
        s2 == IF tool_name = "list_todos" /\ s1.detected_intent = "LIST"
              THEN Yield(s1, add_response_delta(s1.sb, format_todo_list(tool_result)))
              ELSE s1
        todo_count == IF tool_result.isa = "list" THEN tool_result.len ELSE 0
    IN IF tool_name = "list_todos" /\ has_deletion_intent(m) /\ todo_count >= 3
       THEN LET s3 == [s2 EXCEPT !.context_state.potential_mass_deletion = TRUE,
                                 !.context_state.deletion_candidate_count = todo_count]
                s4 == Yield(s3, add_thinking(s3.sb, <<"mass", "deletion", "detected">>))
            IN Yield(s4, add_response_delta(s4.sb,
                   <<"warning", "confirm">>
                   \o mentioned(tool_args, <<"status", "priority", "tags", "due_date_filter">>)))
       ELSE s2

\* lines 396-861: one iteration of the loop
loop_body(event, st, m) ==
    LET s1 == IF hasattr(event, "tool_name")
              THEN LET d == detect_intent(event, st)
                   IN IF hasattr(event, "result") THEN tool_completed(event, d, m) ELSE d
              ELSE st
        sse_event == map_agent_event_to_chatkit(event, s1.sb)
    IN [s1 EXCEPT !.sb = sse_event.sb,
                  !.out = IF sse_event.sse # NoSSE THEN Append(@, sse_event.sse) ELSE @]

(***************************************************************************)
(* Errors raised while the generator runs the agent, and its two handlers  *)
(***************************************************************************)
\* the words a token of an error text contains as substrings
Substrings(tok) ==
    CASE tok = "mcp_server" -> {"mcp_server", "mcp", "server"}
      [] tok = "gemini_api" -> {"gemini_api", "gemini", "api"}
      [] tok = "create_todo" -> {"create_todo", "create", "todo"}
      [] tok = "list_todos" -> {"list_todos", "list", "todo", "todos"}
      [] tok = "update_todo" -> {"update_todo", "update", "todo"}
      [] tok = "delete_todo" -> {"delete_todo", "delete", "todo"}
      [] OTHER -> {tok}

\* w in error_str
Within(w, error_str) == \E i \in DOMAIN error_str : w \in Substrings(error_str[i])

\* str(CircuitBreakerError(service_name, state)).lower()
CircuitBreakerError(service_name) ==
    [class |-> "CircuitBreakerError",
     str |-> <<"circuit", "breaker", "for", service_name, "is", OPEN,
               "service", "temporarily", "unavailable">>]

Exception(text) == [class |-> "Exception", str |-> text]

OtherErrors ==
    {Exception(<<"connection", "refused">>),
     Exception(<<"request", "timeout">>),
     Exception(<<"tool", "create_todo", "failed">>),
     Exception(<<"boom">>)}

\* what the run raises while it streams; every category of error is
\* enumerated by ClassifierErrors
StreamErrors ==
    {CircuitBreakerError("mcp_server"), CircuitBreakerError("gemini_api"),
     Exception(<<"tool", "create_todo", "failed">>), Exception(<<"boom">>)}

\* except CircuitBreakerError (lines 899-966): the events yielded
except_CircuitBreakerError(e, sb) ==
    LET error_str == e.str
        is_mcp_breaker == Within("mcp", error_str) \/ Within("todo", error_str)
        is_gemini_breaker == Within("gemini", error_str) \/ Within("api", error_str)
        r == IF is_mcp_breaker
             THEN add_error(sb, MCP_CONNECTION_ERROR,
                      <<"todo", "service", "temporarily", "unavailable">>, TRUE)
             ELSE IF is_gemini_breaker
             THEN add_error(sb, GEMINI_API_ERROR,
                      <<"language", "service", "temporarily", "unavailable">>, TRUE)
             ELSE add_error(sb, GEMINI_API_ERROR,
                      <<"critical", "service", "temporarily", "unavailable">>, TRUE)
    IN <<r.sse>>

\* variant: validation errors are recognized before tool failures
error_branch_validation_first(error_str) ==
    LET in(w) == Within(w, error_str)
    IN IF in("mcp") \/ in("connection") THEN "connection"
       ELSE IF in("timeout") THEN "timeout"
       ELSE IF in("invalid") \/ in("validation") THEN "invalid"
       ELSE IF in("tool") /\ (in("failed") \/ in("error")) THEN "tool"
       ELSE IF in("database") \/ in("db") \/ in("constraint") THEN "database"
       ELSE "generic"

\* lines 1009-1078: the if/elif chain over error_str, by the branch taken
error_branch(error_str) ==
    LET in(w) == Within(w, error_str)
    IN IF in("mcp") \/ in("connection") THEN "connection"
       ELSE IF in("timeout") THEN "timeout"
       ELSE IF in("tool") /\ (in("failed") \/ in("error")) THEN "tool"
       ELSE IF in("invalid") \/ in("validation") THEN "invalid"
       ELSE IF in("database") \/ in("db") \/ in("constraint") THEN "database"
       ELSE "generic"

\* except Exception (lines 968-1121): the events yielded
except_Exception(e, sb, intent) ==
    LET error_str == e.str
        in(w) == Within(w, error_str)
        is_create_operation == intent = "CREATE" \/ in("create_todo") \/ in("create")
        is_list_operation ==
            intent = "LIST" \/ in("list_todos") \/ (in("list") /\ in("todo"))
        is_update_operation ==
            intent = "UPDATE" \/ in("update_todo") \/ (in("update") /\ in("todo"))
        is_delete_operation ==
            intent = "DELETE" \/ in("delete_todo") \/ (in("delete") /\ in("todo"))
        op == IF is_create_operation THEN "create"
              ELSE IF is_list_operation THEN "list"
              ELSE IF is_update_operation THEN "update"
              ELSE IF is_delete_operation THEN "delete"
              ELSE "any"
        branch == error_branch(error_str)
        err == IF branch = "connection"
               THEN add_error(sb, MCP_CONNECTION_ERROR, <<"service", "unavailable", op>>, TRUE)
               ELSE IF branch = "timeout"
               THEN add_error(sb, TIMEOUT, <<"timed", "out", op>>, TRUE)
               ELSE IF branch = "tool"
               THEN add_error(sb, TOOL_EXECUTION_FAILED, <<"tool", "failed", op>>, TRUE)
               ELSE IF branch = "invalid"
               THEN add_error(sb, INVALID_TOOL_ARGUMENTS, <<"invalid", "request", op>>, TRUE)
               ELSE IF branch = "database"
               THEN add_error(sb, TOOL_EXECUTION_FAILED, <<"database", "error", op>>, TRUE)
               ELSE add_error(sb, GEMINI_API_ERROR,
                        IF op = "any" THEN <<"unexpected", "error">> ELSE <<"sorry", op>>,
                        TRUE)
        done == add_done(err.sb, <<"Error", "occurred", "during", "processing">>, FALSE)
    IN <<err.sse, done.sse>>

(***************************************************************************)
(* chat_stream_generator as a state machine                                *)
(***************************************************************************)
\* variant: the degraded-mode check lets the request through
degraded_mode_ignored(server) == FALSE

\* line 305: if mcp_server is None
degraded_mode(server) == server = "None"

InitStream ==
    /\ mcp_server \in {"None", "MCPServerStdio"}
    /\ message \in Messages
    /\ spc = "start"
    /\ stream_builder = StreamBuilder
    /\ detected_intent = "None"
    /\ context_state = [potential_mass_deletion |-> FALSE,
                        deletion_candidate_count |-> 0,
                        is_confirmation_response |-> FALSE,
                        is_cancellation_response |-> FALSE]
    /\ out = <<>>
    /\ pulled = 0
    /\ runner = "not_started"
    /\ inbound = <<>>
    /\ caught = [class |-> "None", str |-> <<>>]
    /\ gemini_breaker = CircuitBreakerState(0)
    /\ health = NoResponse
    \* the process-wide Gemini breaker of src/config.py and the retry policy
    \* of gemini_retry
    /\ config = [failure_threshold |-> 3, recovery_timeout |-> 60,
                 half_open_max_calls |-> 2, max_attempts |-> 3]
    /\ now = 0
    /\ breaker = CircuitBreakerState(0)
    /\ pc = [p \in Callers |-> "idle"]
    /\ plan = [p \in Callers |-> 0]
    /\ attempt = [p \in Callers |-> 0]
    /\ streak = 0
    /\ trial = 0
    /\ probes = 0
    /\ ev = [op |-> "init", from |-> CLOSED, n |-> 0,
             res |-> "none", err |-> "none", inv |-> 0]

\* lines 247-381: from the start of the generator to the start of the run
StartRequest ==
    /\ spc = "start"
    /\ context_state' =
           [context_state EXCEPT
               !.is_confirmation_response = is_confirmation_response(message),
               !.is_cancellation_response = is_cancellation_response(message)]
    /\ IF degraded_mode(mcp_server)
       THEN LET e == add_error(stream_builder, MCP_CONNECTION_ERROR,
                         <<"unable", "to", "access", "todo", "database">>, TRUE)
                d == add_done(e.sb, <<"Service", "temporarily", "unavailable">>, FALSE)
            IN /\ out' = <<e.sse, d.sse>>
               /\ stream_builder' = d.sb
               /\ spc' = "closed"
               /\ UNCHANGED <<runner, caught>>
       ELSE \/ \* the agent is built and the run is started
               LET t == add_thinking(stream_builder,
                            IF is_confirmation_response(message)
                            THEN <<"confirmation", "received">>
                            ELSE IF is_cancellation_response(message)
                            THEN <<"cancellation", "received">>
                            ELSE <<"processing", "request">>)
               IN /\ out' = <<t.sse>>
                  /\ stream_builder' = t.sb
                  /\ spc' = "streaming"
                  /\ runner' = "running"
                  /\ UNCHANGED caught
            \/ \* initialize_agent_with_mcp raises
               \E e \in OtherErrors :
                  /\ out' = except_Exception(e, stream_builder, detected_intent)
                  /\ caught' = e
                  /\ spc' = "closed"
                  /\ UNCHANGED <<stream_builder, runner>>
    /\ UNCHANGED <<mcp_server, message, detected_intent, pulled, inbound>>
    /\ UNCHANGED hvars
    /\ UNCHANGED cbvars

\* lines 396-861: the run yields event and the loop body handles it
PullEvent(event) ==
    /\ spc = "streaming"
    /\ pulled < MaxEvents
    /\ LET st == loop_body(event,
                     [sb |-> stream_builder, detected_intent |-> detected_intent,
                      context_state |-> context_state, out |-> out],
                     message)
       IN /\ stream_builder' = st.sb
          /\ detected_intent' = st.detected_intent
          /\ context_state' = st.context_state
          /\ out' = st.out
    /\ pulled' = pulled + 1
    /\ inbound' = Append(inbound, event)
    /\ UNCHANGED <<mcp_server, message, spc, runner, caught>>
    /\ UNCHANGED hvars
    /\ UNCHANGED cbvars

\* lines 863-882: the run ends and result.result() returns
RunnerExhausted ==
    /\ spc = "streaming"
    /\ LET final_output == IF stream_builder.accumulated_text # <<>>
                           THEN stream_builder.accumulated_text
                           ELSE <<"Request", "processed", "successfully.">>
           d == add_done(stream_builder, final_output, TRUE)
       IN /\ out' = Append(out, d.sse)
          /\ stream_builder' = d.sb
    /\ spc' = "closed"
    /\ runner' = "exhausted"
    /\ UNCHANGED <<mcp_server, message, detected_intent, context_state, pulled,
                   inbound, caught>>
    /\ UNCHANGED hvars
    /\ UNCHANGED cbvars

\* lines 899-1121: Runner.run_streamed, stream_events() or result.result()
\* raises e
RunnerRaises(e) ==
    /\ spc = "streaming"
    /\ out' = out \o (IF e.class = "CircuitBreakerError"
                      THEN except_CircuitBreakerError(e, stream_builder)
                      ELSE except_Exception(e, stream_builder, detected_intent))
    /\ caught' = e
    /\ spc' = "closed"
    /\ runner' = "raised"
    /\ UNCHANGED <<mcp_server, message, stream_builder, detected_intent,
                   context_state, pulled, inbound>>
    /\ UNCHANGED hvars
    /\ UNCHANGED cbvars

NextStream ==
    \/ StartRequest
    \/ \E event \in RunnerEvents : PullEvent(event)
    \/ RunnerExhausted
    \/ \E e \in StreamErrors : RunnerRaises(e)

SpecStream == InitStream /\ [][NextStream]_vars

(***************************************************************************)
(* Properties of the event stream of one request                           *)
(***************************************************************************)
Positions(event_type) == {i \in DOMAIN out : out[i].event = event_type}

\* C1: the stream of every request contains exactly one done event and that
\* event is the last one emitted, whatever the Agent Runner yields and
\* whatever error is raised while pulling (a circuit-open error included):
\* nothing follows a done event, and a closed stream ends with its only one.
C1_ExactlyOneDoneLast ==
    /\ \A i \in Positions(DONE) : i = Len(out)
    /\ spc = "closed" => /\ Cardinality(Positions(DONE)) = 1
                         /\ out[Len(out)].event = DONE

C7_AtMostOneError == Cardinality(Positions(ERROR)) <= 1

\* C8: the DONE event has success = true exactly when the Agent Runner
\* sequence was exhausted normally; a stream that contains an ERROR event
\* has a DONE event with success = false, and a DONE with success = true is
\* never preceded by an ERROR event.
C8_DoneSuccessIffExhausted ==
    /\ \A i \in Positions(DONE) :
          /\ out[i].data.success = (runner = "exhausted")
          /\ out[i].data.success => \A j \in Positions(ERROR) : j > i
    /\ Positions(ERROR) # {} =>
          \A i \in Positions(DONE) : out[i].data.success = FALSE

(***************************************************************************)
(* The Agent Runner's sequence as the Stream Event Mapper's specification  *)
(* reads it: text fragments, tool-invocation-started and -finished events  *)
(***************************************************************************)
IsText(e) ==
    /\ hasattr(e, "type") /\ e.type = "raw_response_event"
    /\ hasattr(e.data, "delta") /\ e.data.delta # <<>>

IsStarted(e) ==
    /\ hasattr(e, "type") /\ e.type = "run_item_stream_event"
    /\ e.name = "tool_called"
    /\ hasattr(e.item.raw_item, "name") /\ hasattr(e.item.raw_item, "call_id")

IsFinished(e) ==
    /\ hasattr(e, "type") /\ e.type = "run_item_stream_event"
    /\ e.name = "tool_output"
    /\ hasattr(e.item.raw_item, "call_id")

CallId(e) == e.item.raw_item.call_id

\* the positions before i of the started events with the call_id of seq[i]
StartedBefore(seq, i) ==
    {j \in 1..(i - 1) : IsStarted(seq[j]) /\ CallId(seq[j]) = CallId(seq[i])}

Max(S) == CHOOSE x \in S : \A y \in S : y <= x

\* only text, started and finished events, each finished one correlated
Correlated(seq) ==
    \A i \in DOMAIN seq :
        \/ IsText(seq[i])
        \/ IsStarted(seq[i])
        \/ IsFinished(seq[i]) /\ StartedBefore(seq, i) # {}

RECURSIVE Fragments(_)
\* the concatenation, in arrival order, of the text fragments of seq
Fragments(seq) ==
    IF seq = <<>> THEN <<>>
    ELSE LET front == SubSeq(seq, 1, Len(seq) - 1)
             e == seq[Len(seq)]
         IN IF IsText(e) THEN Fragments(front) \o e.data.delta ELSE Fragments(front)

RECURSIVE ToolNames(_)
\* the distinct tool names of the started events of seq, by first occurrence
ToolNames(seq) ==
    IF seq = <<>> THEN <<>>
    ELSE LET front == SubSeq(seq, 1, Len(seq) - 1)
             e == seq[Len(seq)]
             names == ToolNames(front)
         IN IF IsStarted(e) /\ e.item.raw_item.name \notin Range(names)
            THEN Append(names, e.item.raw_item.name)
            ELSE names

\* what an outbound event says, arguments and prose left out
Outline(sse) ==
    CASE sse.event = TOOL_CALL -> <<TOOL_CALL, sse.data.tool_name, sse.data.status>>
      [] sse.event = RESPONSE_DELTA ->
            <<RESPONSE_DELTA, sse.data.delta, sse.data.accumulated>>
      [] sse.event = DONE ->
            <<DONE, sse.data.final_output, sse.data.tools_called, sse.data.success>>
      [] OTHER -> <<sse.event>>

\* the outbound event expected for the i-th event of a correlated sequence
Expected(seq, i) ==
    IF IsText(seq[i])
    THEN <<RESPONSE_DELTA, seq[i].data.delta, Fragments(SubSeq(seq, 1, i))>>
    ELSE IF IsStarted(seq[i])
    THEN <<TOOL_CALL, seq[i].item.raw_item.name, IN_PROGRESS>>
    ELSE <<TOOL_CALL, seq[Max(StartedBefore(seq, i))].item.raw_item.name, COMPLETED>>

ExpectedDone(seq, final_output) == <<DONE, final_output, ToolNames(seq), TRUE>>

Outlines == [i \in DOMAIN out |-> Outline(out[i])]

Completed == spc = "closed" /\ runner = "exhausted"

\* C12 as stated: for a correlated sequence the request's output is one
\* outbound event per inbound event, in order, followed by
\* DONE(concatenation of the text fragments, distinct tool names, true).
C12_AsStated ==
    (Completed /\ Correlated(inbound)) =>
        Outlines = [i \in DOMAIN inbound |-> Expected(inbound, i)]
                   \o <<ExpectedDone(inbound, Fragments(inbound))>>

\* C12: for a correlated sequence the request's output is the initial
\* THINKING event, then one outbound event per inbound event in the same
\* order (IN_PROGRESS for started, RESPONSE_DELTA for text, COMPLETED for
\* finished), then DONE(final_output, distinct tool names by first
\* occurrence, true), final_output being the concatenation of the text
\* fragments, or the default sentence when there is no text fragment.
C12_ThinkingThenOnePerEventThenDone ==
    (runner \in {"running", "exhausted"} /\ Correlated(inbound)) =>
        LET body == <<<<THINKING>>>> \o [i \in DOMAIN inbound |-> Expected(inbound, i)]
            final_output == IF Fragments(inbound) # <<>> THEN Fragments(inbound)
                            ELSE <<"Request", "processed", "successfully.">>
        IN Outlines = IF Completed
                      THEN Append(body, ExpectedDone(inbound, final_output))
                      ELSE body

\* the sequence [started(a, create_todo), text(hi), finished(a)] was streamed
C12_Witness ==
    /\ Completed
    /\ Len(inbound) = 3
    /\ IsStarted(inbound[1]) /\ CallId(inbound[1]) = "a"
    /\ inbound[1].item.raw_item.name = "create_todo"
    /\ IsText(inbound[2])
    /\ IsFinished(inbound[3]) /\ CallId(inbound[3]) = "a"
    /\ Outlines = << <<THINKING>>,
                     <<TOOL_CALL, "create_todo", IN_PROGRESS>>,
                     <<RESPONSE_DELTA, <<"hi">>, <<"hi">> >>,
                     <<TOOL_CALL, "create_todo", COMPLETED>>,
                     <<DONE, <<"hi">>, <<"create_todo">>, TRUE>> >>

\* the step pulls an event from the run
Pulls == Len(inbound') = Len(inbound) + 1

\* the event pulled is a finished event no earlier started event matches
Uncorrelated ==
    /\ IsFinished(inbound'[Len(inbound')])
    /\ StartedBefore(inbound', Len(inbound')) = {}

\* C13: a tool-finished event whose call_id matches no earlier tool-started
\* event emits nothing, raises no error, and leaves accumulated_text,
\* tools_called and the correlation table unchanged; the request keeps
\* streaming.
C13_UncorrelatedFinishedIsSilent ==
    [][(Pulls /\ Uncorrelated) =>
          /\ out' = out
          /\ stream_builder' = stream_builder
          /\ spc' = "streaming" /\ runner' = "running"]_vars

\* an uncorrelated finished event was pulled after a started event with
\* another call_id, and the event after it was mapped
C13_Witness ==
    /\ Len(inbound) = 3
    /\ IsStarted(inbound[1]) /\ CallId(inbound[1]) = "a"
    /\ IsFinished(inbound[2]) /\ CallId(inbound[2]) = "b"
    /\ IsText(inbound[3])
    /\ Len(out) = 3
    /\ out[3].event = RESPONSE_DELTA

\* C19 as stated: the run of a streaming request goes through the Gemini
\* breaker: no run is started while the breaker is OPEN and not yet due for
\* recovery, and a run that raises an error is recorded as one failure.
C19_RunsThroughGeminiBreaker ==
    [][/\ (runner = "not_started" /\ runner' = "running")
            => ~(breaker.state = OPEN /\ Elapsed < config.recovery_timeout)
       /\ (runner = "running" /\ runner' = "raised" /\ out'[Len(out')].event = DONE)
            => breaker' = record_failure(breaker, config, now)]_vars

NewEvents == SubSeq(out', Len(out) + 1, Len(out'))

RECURSIVE Deltas(_)
\* the concatenation of the deltas of the RESPONSE_DELTA events of events
Deltas(events) ==
    IF events = <<>> THEN <<>>
    ELSE LET front == SubSeq(events, 1, Len(events) - 1)
             e == events[Len(events)]
         IN IF e.event = RESPONSE_DELTA THEN Deltas(front) \o e.data.delta
            ELSE Deltas(front)

\* a completed message or output text, mapped only when nothing was streamed
IsFullText(e) ==
    /\ hasattr(e, "type")
    /\ \/ e.type = "raw_response_event" /\ hasattr(e.data, "text")
       \/ e.type = "run_item_stream_event" /\ e.name = "message_output_created"

\* an event that carries a tool's result itself
IsToolResult(e) == hasattr(e, "tool_name") /\ hasattr(e, "result")

\* C20 as stated: after the i-th text fragment the RESPONSE_DELTA emitted
\* carries that fragment and the concatenation of fragments 1..i, and no
\* event of another kind changes accumulated_text.
C20_AsStated ==
    [][Pulls =>
          LET e == inbound'[Len(inbound')]
          IN IF IsText(e)
             THEN /\ out' = Append(out, response_delta_event(e.data.delta,
                                                            Fragments(inbound')))
                  /\ stream_builder'.accumulated_text = Fragments(inbound')
             ELSE stream_builder'.accumulated_text = stream_builder.accumulated_text
      ]_vars

\* C20: accumulated_text only grows by appending and every RESPONSE_DELTA
\* carries what it appends and the text accumulated with it; a text fragment
\* is always appended and emitted as RESPONSE_DELTA(fragment, text so far),
\* which is the concatenation of fragments 1..i as long as no other event
\* has added text; the only other events that add text are a completed text
\* or message arriving while accumulated_text is empty and a tool result.
C20_AppendOnly ==
    [][LET e == inbound'[Len(inbound')]
           acc == stream_builder.accumulated_text
           acc2 == stream_builder'.accumulated_text
       IN    /\ acc2 = acc \o Deltas(NewEvents)
             /\ \A i \in (Len(out) + 1)..Len(out') :
                   out'[i].event = RESPONSE_DELTA =>
                       out'[i].data.accumulated = Deltas(SubSeq(out', 1, i))
             /\ (Pulls /\ IsText(e)) =>
                   /\ out' = Append(out, response_delta_event(e.data.delta,
                                                              acc \o e.data.delta))
                   /\ acc = Fragments(inbound) => acc2 = Fragments(inbound')
             /\ (Pulls /\ acc2 # acc) =>
                   \/ IsText(e)
                   \/ IsFullText(e) /\ acc = <<>>
                   \/ IsToolResult(e)
             /\ ~Pulls => acc2 = acc
      ]_vars

\* two text fragments were streamed and the second RESPONSE_DELTA carries both
C20_Witness ==
    /\ Len(inbound) = 2
    /\ IsText(inbound[1]) /\ IsText(inbound[2])
    /\ out[3] = response_delta_event(<<"hi">>, <<"hi", "hi">>)
    /\ stream_builder.accumulated_text = <<"hi", "hi">>

RECURSIVE EmittedTools(_)
\* the distinct tool names of the TOOL_CALL events of events, by first
\* occurrence
EmittedTools(events) ==
    IF events = <<>> THEN <<>>
    ELSE LET front == SubSeq(events, 1, Len(events) - 1)
             e == events[Len(events)]
             names == EmittedTools(front)
         IN IF e.event = TOOL_CALL /\ e.data.tool_name \notin Range(names)
            THEN Append(names, e.data.tool_name)
            ELSE names

\* C21: at every point of a request tools_called has no duplicate, holds
\* exactly the tool names of the TOOL_CALL events emitted so far, in order of
\* first occurrence, and a DONE event carries that list.
C21_ToolsCalledIsOrderedSet ==
    spc # "idle" =>
        LET names == stream_builder.tools_called
        IN /\ \A i, j \in DOMAIN names : names[i] = names[j] => i = j
           /\ names = EmittedTools(out)
           /\ \A i \in Positions(DONE) :
                 out[i].data.tools_called = EmittedTools(SubSeq(out, 1, i))

\* a request ended after three TOOL_CALL events naming two tools
C21_Witness ==
    /\ Completed
    /\ Cardinality(Positions(TOOL_CALL)) = 3
    /\ Len(stream_builder.tools_called) = 2
    /\ out[Len(out)].event = DONE
    /\ Len(out[Len(out)].data.tools_called) = 2

\* an event none of the mapper's branches recognizes
Unrecognized(e) ==
    IF hasattr(e, "type") /\ e.type = "raw_response_event"
    THEN /\ ~hasattr(e.data, "delta")
         /\ ~hasattr(e.data, "text")
         /\ ~(hasattr(e.data, "type") /\ Contains(e.data.type, <<"error">>))
    ELSE IF hasattr(e, "type") /\ e.type = "run_item_stream_event"
    THEN e.name \notin {"tool_called", "tool_output", "message_output_created",
                        "reasoning_item_created"}
    ELSE ~hasattr(e, "delta") /\ ~hasattr(e, "tool_name") /\ ~hasattr(e, "error")

C23_ArgumentsAreMappings ==
    spc # "idle" =>
        /\ \A i \in Positions(TOOL_CALL) : isinstance_dict(out[i].data.arguments)
        /\ \A c \in DOMAIN stream_builder.tool_calls_by_id :
              isinstance_dict(stream_builder.tool_calls_by_id[c][2])

(***************************************************************************)
(* The error classifier on its own: a request whose run raises an error    *)
(* whose text matches any combination of the classifier's categories       *)
(***************************************************************************)
Categories == {"connection", "timeout", "tool", "invalid", "database"}

\* the lower-cased text of an error that matches exactly the categories S
ErrorText(S) ==
    (IF "database" \in S THEN <<"database">> ELSE <<>>)
    \o (IF "invalid" \in S THEN <<"invalid">> ELSE <<>>)
    \o (IF "tool" \in S THEN <<"tool", "failed">> ELSE <<>>)
    \o (IF "timeout" \in S THEN <<"timeout">> ELSE <<>>)
    \o (IF "connection" \in S THEN <<"connection">> ELSE <<>>)

ClassifierErrors ==
    {Exception(ErrorText(S)) : S \in SUBSET Categories}
    \cup {CircuitBreakerError("mcp_server"), CircuitBreakerError("gemini_api"),
          CircuitBreakerError("cache")}

NextClassify ==
    \/ StartRequest
    \/ \E e \in ClassifierErrors : RunnerRaises(e)

SpecClassify == InitStream /\ [][NextClassify]_vars

\* the categories an error falls in
ConnectionOrCircuitOpen(e) ==
    IF e.class = "CircuitBreakerError"
    THEN Within("mcp", e.str) \/ Within("todo", e.str)
    ELSE Within("mcp", e.str) \/ Within("connection", e.str)
DeadlineExceeded(e) == e.class = "Exception" /\ Within("timeout", e.str)
ValidationStyle(e) ==
    e.class = "Exception" /\ (Within("invalid", e.str) \/ Within("validation", e.str))
ToolFailed(e) ==
    /\ e.class = "Exception"
    /\ Within("tool", e.str) /\ (Within("failed", e.str) \/ Within("error", e.str))
DatabaseFailed(e) ==
    /\ e.class = "Exception"
    /\ (Within("database", e.str) \/ Within("db", e.str) \/ Within("constraint", e.str))

\* the step catches an error; the handler's first event is the ERROR event
Catches == caught' # caught
Classified == out'[Len(out) + 1]

\* C24 as stated: the priority order is connection or circuit-open on the
\* tool dependency, deadline exceeded, validation-style message, other
\* tool-dependency failure, anything else.
C24_AsStated ==
    [][Catches =>
          /\ Classified.event = ERROR
          /\ Classified.data.error_type =
                IF ConnectionOrCircuitOpen(caught') THEN MCP_CONNECTION_ERROR
                ELSE IF DeadlineExceeded(caught') THEN TIMEOUT
                ELSE IF ValidationStyle(caught') THEN INVALID_TOOL_ARGUMENTS
                ELSE IF ToolFailed(caught') \/ DatabaseFailed(caught')
                THEN TOOL_EXECUTION_FAILED
                ELSE GEMINI_API_ERROR]_vars

\* C24: the classifier assigns error_type by the fixed priority order
\* connection or circuit-open on the tool dependency -> MCP_CONNECTION_ERROR,
\* deadline exceeded -> TIMEOUT, tool reported as failed ->
\* TOOL_EXECUTION_FAILED, validation-style message -> INVALID_TOOL_ARGUMENTS,
\* database failure -> TOOL_EXECUTION_FAILED, else GEMINI_API_ERROR; for an
\* error matching several categories the earliest in this order is chosen.
C24_PriorityOrder ==
    [][Catches =>
          /\ Classified.event = ERROR
          /\ Classified.data.error_type =
                IF ConnectionOrCircuitOpen(caught') THEN MCP_CONNECTION_ERROR
                ELSE IF DeadlineExceeded(caught') THEN TIMEOUT
                ELSE IF ToolFailed(caught') THEN TOOL_EXECUTION_FAILED
                ELSE IF ValidationStyle(caught') THEN INVALID_TOOL_ARGUMENTS
                ELSE IF DatabaseFailed(caught') THEN TOOL_EXECUTION_FAILED
                ELSE GEMINI_API_ERROR]_vars

\* an error that reports a failed tool, a validation problem and a database
\* problem was classified
C24_Witness ==
    /\ runner = "raised"
    /\ ToolFailed(caught) /\ ValidationStyle(caught) /\ DatabaseFailed(caught)
    /\ ~ConnectionOrCircuitOpen(caught) /\ ~DeadlineExceeded(caught)
    /\ out[2].event = ERROR
    /\ out[2].data.error_type = TOOL_EXECUTION_FAILED

(***************************************************************************)
(* The application: lifespan sets app.state.mcp_server from one protected  *)
(* call of initialize_mcp_connection, then requests are served while the   *)
(* Tool-Server breaker keeps being used and reset                          *)
(***************************************************************************)
\* variant: a failed initialization still yields a handle
initialize_mcp_connection_always(res) == "MCPServerStdio"

\* src/mcp/client.py 184-197: the server on success, None when the
\* protected call raised
initialize_mcp_connection(res) == IF res = "ok" THEN "MCPServerStdio" ELSE "None"

InitGate ==
    /\ config = [failure_threshold |-> 2, recovery_timeout |-> 1,
                 half_open_max_calls |-> 3, max_attempts |-> MaxAttempts]
    /\ now = 0
    /\ breaker = CircuitBreakerState(0)
    /\ pc = [p \in Callers |-> "idle"]
    /\ plan = [p \in Callers |-> 0]
    /\ attempt = [p \in Callers |-> 0]
    /\ streak = 0
    /\ trial = 0
    /\ probes = 0
    /\ ev = [op |-> "init", from |-> CLOSED, n |-> 0,
             res |-> "none", err |-> "none", inv |-> 0]
    \* app.state.mcp_server is not set yet and no request is being served
    /\ mcp_server = "unset"
    /\ message = <<>>
    /\ spc = "idle"
    /\ stream_builder = <<>>
    /\ detected_intent = "None"
    /\ context_state = <<>>
    /\ out = <<>>
    /\ pulled = 0
    /\ runner = "not_started"
    /\ inbound = <<>>
    /\ caught = [class |-> "None", str |-> <<>>]
    /\ gemini_breaker = CircuitBreakerState(0)
    /\ health = NoResponse

\* lifespan, line 61: the protected initialization call, made by c1
startup_call ==
    /\ mcp_server = "unset"
    /\ pc["c1"] # "idle" \/ ev.op = "init"
    /\ \/ call_enter("c1")
       \/ attempt_returns("c1")
       \/ retry_wake("c1")

\* lifespan, lines 61-116: the call is over, the handle is stored
lifespan ==
    /\ mcp_server = "unset"
    /\ pc["c1"] = "idle" /\ ev.op # "init"
    /\ mcp_server' = initialize_mcp_connection(ev.res)
    /\ UNCHANGED <<message, spc, stream_builder, detected_intent, context_state,
                   out, pulled, runner, inbound, caught>>
    /\ UNCHANGED hvars
    /\ UNCHANGED cbvars

\* any later use of the breaker
breaker_step ==
    /\ mcp_server # "unset"
    /\ NextCB

\* stream_chat, lines 1205-1224: a request arrives and its generator is
\* created with the handle of app.state
stream_chat ==
    /\ mcp_server # "unset"
    /\ spc \in {"idle", "closed"}
    /\ message' = <<"add", "milk">>
    /\ spc' = "start"
    /\ stream_builder' = StreamBuilder
    /\ detected_intent' = "None"
    /\ context_state' = [potential_mass_deletion |-> FALSE,
                         deletion_candidate_count |-> 0,
                         is_confirmation_response |-> FALSE,
                         is_cancellation_response |-> FALSE]
    /\ out' = <<>>
    /\ pulled' = 0
    /\ runner' = "not_started"
    /\ inbound' = <<>>
    /\ caught' = [class |-> "None", str |-> <<>>]
    /\ UNCHANGED mcp_server
    /\ UNCHANGED hvars
    /\ UNCHANGED cbvars

NextGate ==
    \/ startup_call
    \/ lifespan
    \/ breaker_step
    \/ stream_chat
    \/ StartRequest
    \/ RunnerExhausted
    \/ \E e \in StreamErrors : RunnerRaises(e)

SpecGate == InitGate /\ [][NextGate]_vars

\* the request leaves the start of its generator
Begins == spc = "start" /\ spc' # "start"

C28_OneSuccessClosesToolServerBreaker ==
    [][(/\ ev'.op = "success"
        /\ breaker.state = HALF_OPEN
        /\ breaker.consecutive_successes = 0
        /\ config.half_open_max_calls = 3)
          => (breaker'.state = CLOSED /\ breaker'.failure_count = 0)]_vars

\* C29: a call sleeping in retry backoff blocks no other caller.  While p
\* sleeps, an idle caller q gets its answer on entry (admitted unless the
\* breaker is OPEN and not due), a running call of q completes with its
\* outcome recorded or its own backoff, and a sleeping q wakes, all with p
\* still asleep before its next attempt.
C29_SleeperBlocksNoCaller ==
    \A p \in Callers : \A q \in Callers \ {p} :
        pc[p] = "sleeping" =>
           /\ pc[q] = "idle" =>
                 ENABLED (/\ call_enter(q)
                          /\ ev'.op = IF breaker.state = OPEN
                                         /\ ~should_attempt_reset(breaker, config, now)
                                      THEN "rejected" ELSE "admitted"
                          /\ pc'[p] = "sleeping" /\ attempt'[p] = attempt[p])
           /\ pc[q] = "running" =>
                 ENABLED (/\ attempt_returns(q)
                          /\ ev'.op \in {"success", "failure", "backoff"}
                          /\ pc'[p] = "sleeping" /\ attempt'[p] = attempt[p])
           /\ pc[q] = "sleeping" =>
                 ENABLED (/\ retry_wake(q)
                          /\ pc'[p] = "sleeping" /\ attempt'[p] = attempt[p])

\* c2 has just been admitted while c1 sleeps after its first attempt, and
\* c2's call can return and be recorded as a success with c1 still asleep
C29_Witness ==
    /\ pc["c1"] = "sleeping" /\ attempt["c1"] = 1
    /\ ev.op = "admitted"
    /\ pc["c2"] = "running" /\ plan["c2"] = 0
    /\ breaker.state = CLOSED /\ breaker.failure_count = 1
    /\ ENABLED (/\ attempt_returns("c2")
                /\ ev'.op = "success"
                /\ breaker'.failure_count = 0
                /\ pc'["c1"] = "sleeping" /\ attempt'["c1"] = 1)

\* the user-facing texts of the handlers of chat_stream_generator
Operations == {"create", "list", "update", "delete", "any"}
UserFacingTexts ==
    {<<"unable", "to", "access", "todo", "database">>,
     <<"todo", "service", "temporarily", "unavailable">>,
     <<"language", "service", "temporarily", "unavailable">>,
     <<"critical", "service", "temporarily", "unavailable">>,
     <<"unexpected", "error">>}
    \cup {<<"service", "unavailable", op>> : op \in Operations}
    \cup {<<"timed", "out", op>> : op \in Operations}
    \cup {<<"tool", "failed", op>> : op \in Operations}
    \cup {<<"invalid", "request", op>> : op \in Operations}
    \cup {<<"database", "error", op>> : op \in Operations}
    \cup {<<"sorry", op>> : op \in Operations \ {"any"}}

\* the error texts an Agent Runner event carries
CarriedTexts(event) ==
    (IF hasattr(event, "error") THEN {event.error} ELSE {})
    \cup (IF hasattr(event, "data") /\ hasattr(event.data, "message")
          THEN {event.data.message} ELSE {})
    \cup (IF hasattr(event, "data") /\ hasattr(event.data, "error")
          THEN {event.data.error} ELSE {})

\* C30: every ERROR message is one of the fixed user-facing texts, chosen
\* by error category and operation, and is never the text of the caught
\* exception or a text carried by an Agent Runner event.
C30_ErrorMessagesAreGeneric ==
    \A i \in 1..Len(out) :
        out[i].event = ERROR =>
           /\ out[i].data.message \in UserFacingTexts
           /\ out[i].data.message # caught.str
           /\ \A j \in 1..Len(inbound) :
                  out[i].data.message \notin CarriedTexts(inbound[j])

(***************************************************************************)
(* GET /health (src/main.py): both process-wide breakers are read and the  *)
(* overall status is derived from their states.  Time is in units of 30 s. *)
(***************************************************************************)
\* src/config.py 133-140: the Gemini breaker; no retry policy is involved
gemini_config ==
    [failure_threshold |-> 3, recovery_timeout |-> 2, half_open_max_calls |-> 2,
     max_attempts |-> 1]

\* variant: reading the state first moves a due breaker to HALF_OPEN
get_state_refreshing(s, c, t) ==
    IF should_attempt_reset(s, c, t) THEN transition_to_half_open(s, t) ELSE s

\* CircuitBreaker.get_state: the breaker's state after the call, which is
\* also what the call returns (return self.state)
get_state(s, c, t) == s

\* datetime.isoformat(), or null
isoformat(t) == IF t = None THEN <<>> ELSE <<"T", t>>

breaker_state_to_dict(state) ==
    [state |-> state.state,
     failure_count |-> state.failure_count,
     last_failure |-> isoformat(state.last_failure_time)]

\* variant: a breaker under trial counts as open
health_status_strict(mcp_state, gemini_state) ==
    LET mcp_open == mcp_state.state # CLOSED
        gemini_open == gemini_state.state # CLOSED
    IN IF mcp_open /\ gemini_open THEN "unhealthy"
       ELSE IF mcp_open \/ gemini_open THEN "degraded"
       ELSE "healthy"

\* lines 224-236
health_status(mcp_state, gemini_state) ==
    LET mcp_open == mcp_state.state = "open"
        gemini_open == gemini_state.state = "open"
    IN IF mcp_open /\ gemini_open THEN "unhealthy"
       ELSE IF mcp_open \/ gemini_open THEN "degraded"
       ELSE "healthy"

\* CircuitBreaker.call (lines 300-316) for an operation that completes
\* before any other use of the breaker: ok tells whether it returns
call(s, c, t, ok) ==
    LET s1 == IF should_attempt_reset(s, c, t)
              THEN transition_to_half_open(s, t) ELSE s
    IN IF s1.state = OPEN THEN fail_fast(s1, c, t)
       ELSE IF ok THEN record_success(s1, c, t)
       ELSE record_failure(s1, c, t)

\* both breakers as constructed at import; src/mcp/client.py 34-39 for the
\* Tool-Server breaker
InitHealth ==
    /\ config = [failure_threshold |-> 2, recovery_timeout |-> 1,
                 half_open_max_calls |-> 3, max_attempts |-> MaxAttempts]
    /\ now = 0
    /\ breaker = CircuitBreakerState(0)
    /\ gemini_breaker = CircuitBreakerState(0)
    /\ health = NoResponse
    /\ pc = [p \in Callers |-> "idle"]
    /\ plan = [p \in Callers |-> 0]
    /\ attempt = [p \in Callers |-> 0]
    /\ streak = 0
    /\ trial = 0
    /\ probes = 0
    /\ ev = [op |-> "init", from |-> CLOSED, n |-> 0,
             res |-> "none", err |-> "none", inv |-> 0]
    /\ mcp_server = "None"
    /\ message = <<>>
    /\ spc = "idle"
    /\ stream_builder = <<>>
    /\ detected_intent = "None"
    /\ context_state = <<>>
    /\ out = <<>>
    /\ pulled = 0
    /\ runner = "not_started"
    /\ inbound = <<>>
    /\ caught = [class |-> "None", str |-> <<>>]

\* the stream variables, which the health endpoint does not touch
reqvars == <<mcp_server, message, spc, stream_builder, detected_intent,
             context_state, out, pulled, runner, inbound, caught>>

\* a call through the Gemini breaker whose operation returns (ok) or raises
gemini_call(ok) ==
    /\ gemini_breaker' = call(gemini_breaker, gemini_config, now, ok)
    /\ ev' = [op |-> "gemini_call", from |-> gemini_breaker.state,
              n |-> gemini_breaker.consecutive_successes,
              res |-> "none", err |-> "none", inv |-> 0]
    /\ UNCHANGED <<breaker, config, now, pc, plan, attempt, streak, trial, probes>>
    /\ UNCHANGED health
    /\ UNCHANGED reqvars

\* health_check, lines 198-297 (uptime and the request metrics are left out
\* of the response)
health_check ==
    /\ breaker' = get_state(breaker, config, now)
    /\ gemini_breaker' = get_state(gemini_breaker, gemini_config, now)
    /\ health' = [status |-> health_status(breaker', gemini_breaker'),
                  circuit_breakers |->
                      [mcp_server |-> breaker_state_to_dict(breaker'),
                       gemini_api |-> breaker_state_to_dict(gemini_breaker')]]
    /\ ev' = Ev("health", "none", "none", 0)
    /\ UNCHANGED <<config, now, pc, plan, attempt, streak, trial, probes>>
    /\ UNCHANGED reqvars

\* a call through the Tool-Server breaker whose operation returns or raises
mcp_call(ok) ==
    /\ breaker' = call(breaker, config, now, ok)
    /\ ev' = Ev("mcp_call", "none", "none", 0)
    /\ UNCHANGED <<config, now, pc, plan, attempt, streak, trial, probes>>
    /\ UNCHANGED hvars
    /\ UNCHANGED reqvars

NextHealth ==
    \/ \E ok \in BOOLEAN : mcp_call(ok)
    \/ \E ok \in BOOLEAN : gemini_call(ok)
    \/ health_check
    \/ reset
    \/ Tick

SpecHealth == InitHealth /\ [][NextHealth]_vars

\* C31: the status of a health response depends on the two breaker states
\* read by that request only: unhealthy when both are OPEN, degraded when
\* exactly one is OPEN, healthy otherwise, HALF_OPEN counting as not open;
\* the response reports the states it was computed from.
C31_HealthIsFunctionOfStates ==
    [][ev'.op = "health" =>
          LET m == breaker.state
              g == gemini_breaker.state
          IN /\ health'.status =
                    IF m = OPEN /\ g = OPEN THEN "unhealthy"
                    ELSE IF (m = OPEN /\ g # OPEN) \/ (m # OPEN /\ g = OPEN)
                    THEN "degraded"
                    ELSE "healthy"
             /\ health'.circuit_breakers.mcp_server.state = m
             /\ health'.circuit_breakers.gemini_api.state = g]_vars

\* a response computed while the Tool-Server breaker is under trial and the
\* Gemini breaker is open after three failures
C31_Witness ==
    /\ ev.op = "health"
    /\ breaker.state = HALF_OPEN
    /\ gemini_breaker.state = OPEN /\ gemini_breaker.failure_count = 3
    /\ health.status = "degraded"

(***************************************************************************)
(* Tool events of a request                                                *)
(***************************************************************************)
\* a tool-invocation-started event, in either shape the loop accepts: a
\* tool_called run item that names its tool, or an older-shape event with
\* a tool_name and no result
StartsTool(e) ==
    \/ /\ hasattr(e, "type") /\ e.type = "run_item_stream_event"
       /\ e.name = "tool_called" /\ hasattr(e.item.raw_item, "name")
    \/ hasattr(e, "tool_name") /\ ~hasattr(e, "result")

\* the positions in events of the TOOL_CALL events with the given status
ToolCalls(events, status) ==
    {i \in DOMAIN events :
        events[i].event = TOOL_CALL /\ events[i].data.status = status}

\* C33: each tool-invocation-started event consumed produces exactly one
\* TOOL_CALL(IN_PROGRESS) event, whatever the tool and the event's shape.
C33_OneInProgressPerStartedEvent ==
    [][(Pulls /\ StartsTool(inbound'[Len(inbound')])) =>
          Cardinality(ToolCalls(NewEvents, IN_PROGRESS)) = 1]_vars

\* C35: get_state() and the health check never change a breaker: a step
\* that is not a call through a breaker (or reset()) leaves its state
\* record unchanged, so an OPEN breaker whose recovery_timeout has elapsed
\* stays OPEN, and is reported as open, until a call arrives.
C35_OnlyCallLeavesOpen ==
    [][/\ ev'.op = "health" =>
             /\ breaker' = breaker /\ gemini_breaker' = gemini_breaker
             /\ health'.circuit_breakers.mcp_server.state = breaker.state
             /\ health'.circuit_breakers.gemini_api.state = gemini_breaker.state
       /\ ev'.op = "tick" => (breaker' = breaker /\ gemini_breaker' = gemini_breaker)
       /\ (breaker.state = OPEN /\ breaker'.state # OPEN) =>
             ev'.op \in {"mcp_call", "reset"}
       /\ (gemini_breaker.state = OPEN /\ gemini_breaker'.state # OPEN) =>
             ev'.op = "gemini_call"]_vars

\* the Tool-Server breaker opened at time 0, its recovery_timeout elapsed
\* twice over with no call, and the health check has just reported it open
C35_Witness ==
    /\ ev.op = "health"
    /\ breaker.state = OPEN
    /\ breaker.last_failure_time = 0 /\ now = MaxTime
    /\ now - breaker.last_failure_time > config.recovery_timeout
    /\ should_attempt_reset(breaker, config, now)
    /\ health.circuit_breakers.mcp_server.state = OPEN
    /\ health.status = "degraded"

\* C38: every TOOL_CALL(COMPLETED) event of a request is preceded in the
\* request's stream by a TOOL_CALL(IN_PROGRESS) event with the same tool
\* name and the same arguments.
C38_CompletedFollowsInProgress ==
    \A i \in ToolCalls(out, COMPLETED) :
        \E j \in ToolCalls(out, IN_PROGRESS) :
            /\ j < i
            /\ out[j].data.tool_name = out[i].data.tool_name
            /\ out[j].data.arguments = out[i].data.arguments

\* the positions before i of the finished events with the call_id of seq[i]
FinishedBefore(seq, i) ==
    {j \in 1..(i - 1) : IsFinished(seq[j]) /\ CallId(seq[j]) = CallId(seq[i])}

\* C39: a call_id produces at most one TOOL_CALL(COMPLETED) event per
\* tool-started event recorded for it: a tool-finished event whose call_id
\* has already been finished as many times as it was started emits nothing.
C39_FinishedOncePerStart ==
    [][(/\ Pulls
        /\ IsFinished(inbound'[Len(inbound')])
        /\ Cardinality(FinishedBefore(inbound', Len(inbound')))
              >= Cardinality(StartedBefore(inbound', Len(inbound'))))
          => out' = out]_vars

====
